---- MODULE Spec2Model ----
(***************************************************************************)
(* The credit ledger of app.py: the tables users, credit_balance and       *)
(* credit_ledger, and the request handlers credits_balance,                *)
(* credits_consume and credits_grant, each run by a worker in its own      *)
(* database transaction (PostgreSQL, read committed).  One action per SQL  *)
(* statement, commit or rollback of a handler.                             *)
(***************************************************************************)
EXTENDS Integers, Sequences, FiniteSets, TLC

\* ---------------------------------------------------------------- bounds
NumWorkers == 2
MaxCalls == 3
GrantAmount == 2
MaxBalance == 3

Workers == 1..NumWorkers
Uids == {"u1", "u2"}
Refs == {"r1", "r2"}
Apps == {"qwen-layer-addon", "billing"}

\* ------------------------------------------------------- program constants
COSTS == ("640p" :> 1) @@ ("1080p" :> 2)

\* The most rows credits_ledger returns.
LedgerLimit == 100

VARIABLES
    users,          \* table users: the committed express_user_id values
    credit_balance, \* table credit_balance: committed rows, uid -> balance
    credit_ledger,  \* table credit_ledger: committed rows, in commit order
    pc,             \* per worker: the statement its handler runs next
    req,            \* per worker: the request it is handling
    tx,             \* per worker: the uncommitted writes of its session
    bal,            \* per worker: the handler's local bal / new_balance / row
    calls,          \* the number of requests received so far
    log             \* history: the last finished calls, in the order they returned

vars == <<users, credit_balance, credit_ledger, pc, req, tx, bal, calls, log>>

\* ------------------------------------------------------------- requests
NoReq == [kind |-> "none", uid |-> "", action |-> "", amount |-> 0,
          ref |-> "", app_id |-> "", admin |-> FALSE]

BalanceReqs == [kind : {"balance"}, uid : Uids, action : {""}, amount : {0},
                ref : {""}, app_id : {""}, admin : {FALSE}]

\* app_id defaults to qwen-layer-addon in credits_consume, to billing in
\* credits_grant; an administrator also grants under the add-on's app_id.
ConsumeReqs == [kind : {"consume"}, uid : Uids, action : DOMAIN COSTS, amount : {0},
                ref : Refs, app_id : {"qwen-layer-addon"}, admin : {FALSE}]

GrantReqs == [kind : {"grant"}, uid : Uids, action : {"admin_grant"}, amount : {GrantAmount},
              ref : Refs \cup {""}, app_id : Apps, admin : {TRUE}]

\* One request per validation branch of the three handlers.
InvalidReqs ==
    { [NoReq EXCEPT !.kind = "balance"],
      [NoReq EXCEPT !.kind = "consume", !.uid = "u1", !.action = "4k",
                    !.ref = "r1", !.app_id = "qwen-layer-addon"],
      [NoReq EXCEPT !.kind = "consume", !.uid = "u1", !.action = "640p",
                    !.app_id = "qwen-layer-addon"],
      [NoReq EXCEPT !.kind = "consume", !.action = "640p",
                    !.ref = "r1", !.app_id = "qwen-layer-addon"],
      [NoReq EXCEPT !.kind = "grant", !.uid = "u1", !.action = "admin_grant",
                    !.amount = 1, !.ref = "r1", !.app_id = "billing"],
      [NoReq EXCEPT !.kind = "grant", !.action = "admin_grant", !.amount = 1,
                    !.ref = "r1", !.app_id = "billing", !.admin = TRUE],
      [NoReq EXCEPT !.kind = "grant", !.uid = "u1", !.action = "admin_grant",
                    !.ref = "r1", !.app_id = "billing", !.admin = TRUE] }

Requests == BalanceReqs \cup ConsumeReqs \cup GrantReqs \cup InvalidReqs

\* The audit query: an account id (possibly missing) and the admin check.
LedgerReqs == [kind : {"ledger"}, uid : Uids \cup {""}, action : {""}, amount : {0},
               ref : {""}, app_id : {""}, admin : BOOLEAN]

\* ------------------------------------------------------------ responses
NoResp == [status |-> 0, ok |-> <<>>, idempotent |-> FALSE, balance |-> <<>>,
           error |-> "", message |-> ""]

Json(status, ok, idem, balance, error, message) ==
    [status |-> status, ok |-> ok, idempotent |-> idem, balance |-> balance,
     error |-> error, message |-> message]

\* --------------------------------------------------------- the session
NoTx == [ins_user |-> FALSE, ins_bal |-> FALSE, upd |-> <<>>, ledger |-> <<>>]

NoTables == [users |-> {}, balance |-> <<>>, ledger |-> <<>>]

Committed == [users |-> users, balance |-> credit_balance, ledger |-> credit_ledger]

InFlight == {p \in Workers : pc[p] # "idle"}

\* Mutant: the insert waits for every request in flight on the account.
UsersRowPending_AnyRequest(p, u) ==
    \E q \in Workers \ {p} : req[q].uid = u /\ pc[q] # "idle"

\* Another session holds an uncommitted insert of the users row of u.
UsersRowPending(p, u) ==
    \E q \in Workers \ {p} : req[q].uid = u /\ tx[q].ins_user

\* Mutant: the update does not wait for the row lock and works on the balance
\* it read.
BalanceRowLocked_NoLock(p, u) == FALSE

\* Another session holds an uncommitted update of the credit_balance row of u
\* (its row lock): an update of that row waits for that session to end.
BalanceRowLocked(p, u) ==
    \E q \in Workers \ {p} : req[q].uid = u /\ tx[q].upd # <<>>

\* Another session holds an uncommitted insert or update of the credit_balance
\* row of u: an insert ... on conflict of that row waits for that session to end.
BalanceRowPending(p, u) ==
    \/ BalanceRowLocked(p, u)
    \/ \E q \in Workers \ {p} : req[q].uid = u /\ tx[q].ins_bal

\* Mutant: the insert does not wait for an uncommitted row with its key.
LedgerKeyPending_NoWait(p, app, ref) == FALSE

\* Another session holds an uncommitted credit_ledger row with this key.
LedgerKeyPending(p, app, ref) ==
    \E q \in Workers \ {p} :
        \E i \in 1..Len(tx[q].ledger) :
            tx[q].ledger[i].app_id = app /\ tx[q].ledger[i].external_ref = <<ref>>

\* Mutant: the conflict target misses the committed rows.
LedgerKeyTaken_OwnSession(p, app, ref) ==
    \E i \in 1..Len(tx[p].ledger) :
        tx[p].ledger[i].app_id = app /\ tx[p].ledger[i].external_ref = <<ref>>

\* Mutant: the key is unique per account only.
LedgerKeyTaken_PerAccount(p, app, ref) ==
    \E i \in 1..Len(credit_ledger) :
        /\ credit_ledger[i].app_id = app
        /\ credit_ledger[i].external_ref = <<ref>>
        /\ credit_ledger[i].express_user_id = req[p].uid

\* A committed credit_ledger row, or one of this session, has this key.
LedgerKeyTaken(p, app, ref) ==
    \/ \E i \in 1..Len(credit_ledger) :
           credit_ledger[i].app_id = app /\ credit_ledger[i].external_ref = <<ref>>
    \/ \E i \in 1..Len(tx[p].ledger) :
           tx[p].ledger[i].app_id = app /\ tx[p].ledger[i].external_ref = <<ref>>

\* select balance from credit_balance where express_user_id = u, as session p
\* sees it: its own writes over the committed row.  <<>> is the empty result.
SelectBalance(p, u) ==
    IF tx[p].upd # <<>> THEN tx[p].upd
    ELSE IF tx[p].ins_bal THEN <<0>>
    ELSE IF u \in DOMAIN credit_balance THEN <<credit_balance[u]>>
    ELSE <<>>

LedgerRow(u, delta, reason, ref, app) ==
    [express_user_id |-> u, delta |-> delta, reason |-> reason,
     external_ref |-> ref, app_id |-> app]

\* What a commit of session p leaves in the three tables.
CommitUsers(p) ==
    IF tx[p].ins_user THEN users \cup {req[p].uid} ELSE users

\* Mutant: the update has no where clause and writes every row.
CommitBalance_EveryRow(p) ==
    IF tx[p].upd # <<>>
    THEN [u \in DOMAIN credit_balance \cup {req[p].uid} |-> tx[p].upd[1]]
    ELSE IF tx[p].ins_bal THEN (req[p].uid :> 0) @@ credit_balance
    ELSE credit_balance

CommitBalance(p) ==
    IF tx[p].upd # <<>> THEN (req[p].uid :> tx[p].upd[1]) @@ credit_balance
    ELSE IF tx[p].ins_bal THEN (req[p].uid :> 0) @@ credit_balance
    ELSE credit_balance

\* Mutant: a commit that writes ledger rows puts them in place of the table.
CommitLedger_Replace(p) ==
    IF tx[p].ledger # <<>> THEN tx[p].ledger ELSE credit_ledger

CommitLedger(p) == credit_ledger \o tx[p].ledger

\* ------------------------------------------------------------- validation
\* Mutant: credits_consume takes action_ref as optional.
Validate_RefOptional(r) ==
    IF r.kind = "balance" THEN
        IF r.uid = "" THEN Json(400, <<>>, FALSE, <<>>, "Missing express_user_id", "")
        ELSE NoResp
    ELSE IF r.kind = "consume" THEN
        IF r.action \notin DOMAIN COSTS THEN Json(400, <<>>, FALSE, <<>>, "Invalid action", "")
        ELSE IF r.uid = "" THEN Json(400, <<>>, FALSE, <<>>, "Missing express_user_id", "")
        ELSE IF COSTS[r.action] <= 0 THEN Json(500, <<>>, FALSE, <<>>, "amount must be > 0", "")
        ELSE NoResp
    ELSE
        IF ~r.admin THEN Json(401, <<>>, FALSE, <<>>, "Unauthorized", "")
        ELSE IF r.uid = "" THEN Json(400, <<>>, FALSE, <<>>, "Missing express_user_id", "")
        ELSE IF r.amount <= 0 THEN Json(400, <<>>, FALSE, <<>>, "amount must be > 0", "")
        ELSE NoResp

\* The checks each handler makes before it opens a transaction; NoResp when the
\* request passes them.
Validate(r) ==
    IF r.kind = "balance" THEN
        IF r.uid = "" THEN Json(400, <<>>, FALSE, <<>>, "Missing express_user_id", "")
        ELSE NoResp
    ELSE IF r.kind = "consume" THEN
        IF r.action \notin DOMAIN COSTS THEN Json(400, <<>>, FALSE, <<>>, "Invalid action", "")
        ELSE IF r.ref = "" THEN Json(400, <<>>, FALSE, <<>>, "Missing action_ref", "")
        ELSE IF r.uid = "" THEN Json(400, <<>>, FALSE, <<>>, "Missing express_user_id", "")
        ELSE IF COSTS[r.action] <= 0 THEN Json(500, <<>>, FALSE, <<>>, "amount must be > 0", "")
        ELSE NoResp
    ELSE
        IF ~r.admin THEN Json(401, <<>>, FALSE, <<>>, "Unauthorized", "")
        ELSE IF r.uid = "" THEN Json(400, <<>>, FALSE, <<>>, "Missing express_user_id", "")
        ELSE IF r.amount <= 0 THEN Json(400, <<>>, FALSE, <<>>, "amount must be > 0", "")
        ELSE NoResp

FailedMessage(r) ==
    IF r.kind = "balance" THEN "Failed to fetch balance"
    ELSE IF r.kind = "consume" THEN "Failed to consume credits"
    ELSE "Failed to grant credits"

\* ---------------------------------------------------------------- actions
Init ==
    /\ users = {}
    /\ credit_balance = <<>>
    /\ credit_ledger = <<>>
    /\ pc = [p \in Workers |-> "idle"]
    /\ req = [p \in Workers |-> NoReq]
    /\ tx = [p \in Workers |-> NoTx]
    /\ bal = [p \in Workers |-> <<>>]
    /\ calls = 0
    /\ log = <<>>

\* The history keeps the last h finished calls: the request, the response and
\* the committed tables when the call returned.
Record(h, entry) ==
    LET all == Append(log, entry) IN
    log' = IF Len(all) > h THEN SubSeq(all, Len(all) - h + 1, Len(all)) ELSE all

\* The handler of worker p returns response r; its session ends with the
\* committed tables as given.
Return(p, r, post, h) ==
    /\ pc' = [pc EXCEPT ![p] = "idle"]
    /\ req' = [req EXCEPT ![p] = NoReq]
    /\ tx' = [tx EXCEPT ![p] = NoTx]
    /\ bal' = [bal EXCEPT ![p] = <<>>]
    /\ Record(h, [req |-> req[p], resp |-> r, post |-> post])
    /\ UNCHANGED calls

Goto(p, label) == pc' = [pc EXCEPT ![p] = label]

\* A request arrives at an idle worker and is validated.
Receive(p, h) ==
    /\ pc[p] = "idle"
    /\ calls < MaxCalls
    /\ calls' = calls + 1
    /\ \E r \in Requests :
        IF Validate(r) # NoResp
        THEN /\ Record(h, [req |-> r, resp |-> Validate(r), post |-> Committed])
             /\ UNCHANGED <<users, credit_balance, credit_ledger, pc, req, tx, bal>>
        ELSE /\ req' = [req EXCEPT ![p] = r]
             /\ Goto(p, "ensure_users")
             /\ UNCHANGED <<users, credit_balance, credit_ledger, tx, bal, log>>

\* ensure_user_row, first statement: insert into users ... on conflict do nothing.
ensure_user_row_users(p) ==
    /\ pc[p] = "ensure_users"
    /\ ~UsersRowPending(p, req[p].uid)
    /\ tx' = [tx EXCEPT ![p].ins_user = req[p].uid \notin users]
    /\ Goto(p, "ensure_balance")
    /\ UNCHANGED <<users, credit_balance, credit_ledger, req, bal, calls, log>>

AfterEnsure(r) ==
    IF r.kind = "balance" THEN "balance_select"
    ELSE IF r.kind = "consume" THEN "consume_insert"
    ELSE IF r.ref # "" THEN "grant_insert_ref"
    ELSE "grant_insert"

\* Mutant: the registrar writes the zero row over an existing one (on conflict
\* do update).
ensure_user_row_balance_overwrite(p) ==
    /\ pc[p] = "ensure_balance"
    /\ ~BalanceRowPending(p, req[p].uid)
    /\ tx' = [tx EXCEPT ![p].ins_bal = TRUE]
    /\ Goto(p, AfterEnsure(req[p]))
    /\ UNCHANGED <<users, credit_balance, credit_ledger, req, bal, calls, log>>

\* ensure_user_row, second statement: insert into credit_balance (uid, 0) ...
\* on conflict do nothing.
ensure_user_row_balance(p) ==
    /\ pc[p] = "ensure_balance"
    /\ ~BalanceRowPending(p, req[p].uid)
    /\ tx' = [tx EXCEPT ![p].ins_bal = req[p].uid \notin DOMAIN credit_balance]
    /\ Goto(p, AfterEnsure(req[p]))
    /\ UNCHANGED <<users, credit_balance, credit_ledger, req, bal, calls, log>>

\* credits_balance: the select.
credits_balance_select(p) ==
    /\ pc[p] = "balance_select"
    /\ bal' = [bal EXCEPT ![p] = SelectBalance(p, req[p].uid)]
    /\ Goto(p, "balance_commit")
    /\ UNCHANGED <<users, credit_balance, credit_ledger, req, tx, calls, log>>

\* Mutant: the balance query ends its transaction with a rollback.
credits_balance_rollback(p, h) ==
    /\ pc[p] = "balance_commit"
    /\ UNCHANGED <<users, credit_balance, credit_ledger>>
    /\ Return(p, Json(200, <<>>, FALSE, IF bal[p] # <<>> THEN bal[p] ELSE <<0>>, "", ""),
              Committed, h)

\* credits_balance: commit and respond; balance is 0 when the select found no row.
credits_balance_commit(p, h) ==
    /\ pc[p] = "balance_commit"
    /\ users' = CommitUsers(p)
    /\ credit_balance' = CommitBalance(p)
    /\ credit_ledger' = CommitLedger(p)
    /\ Return(p, Json(200, <<>>, FALSE, IF bal[p] # <<>> THEN bal[p] ELSE <<0>>, "", ""),
              [users |-> CommitUsers(p), balance |-> CommitBalance(p),
               ledger |-> CommitLedger(p)], h)

\* The idempotency gate of credits_consume and credits_grant: insert into
\* credit_ledger ... on conflict (app_id, external_ref) do nothing returning id.
\* The insert waits while another session holds an uncommitted row with the key.
GateInsert(p, delta, inserted, duplicate) ==
    /\ ~LedgerKeyPending(p, req[p].app_id, req[p].ref)
    /\ IF LedgerKeyTaken(p, req[p].app_id, req[p].ref)
       THEN /\ Goto(p, duplicate)
            /\ UNCHANGED tx
       ELSE /\ tx' = [tx EXCEPT ![p].ledger = Append(@,
                        LedgerRow(req[p].uid, delta, req[p].action, <<req[p].ref>>,
                                  req[p].app_id))]
            /\ Goto(p, inserted)
    /\ UNCHANGED <<users, credit_balance, credit_ledger, req, bal, calls, log>>

\* The duplicate branch of both handlers: select the balance (scalar_one).
DuplicateSelect(p, next) ==
    /\ bal' = [bal EXCEPT ![p] = SelectBalance(p, req[p].uid)]
    /\ Goto(p, IF SelectBalance(p, req[p].uid) = <<>> THEN "no_result" ELSE next)
    /\ UNCHANGED <<users, credit_balance, credit_ledger, req, tx, calls, log>>

\* The duplicate branch of both handlers: rollback and respond idempotent.
DuplicateRollback(p, h) ==
    /\ UNCHANGED <<users, credit_balance, credit_ledger>>
    /\ Return(p, Json(200, <<TRUE>>, TRUE, bal[p], "", ""), Committed, h)

\* credits_consume, step 1: the ledger insert.
credits_consume_insert(p) ==
    /\ pc[p] = "consume_insert"
    /\ GateInsert(p, -COSTS[req[p].action], "consume_update", "consume_dup_select")

credits_consume_dup_select(p) ==
    /\ pc[p] = "consume_dup_select"
    /\ DuplicateSelect(p, "consume_dup_rollback")

credits_consume_dup_rollback(p, h) ==
    /\ pc[p] = "consume_dup_rollback"
    /\ DuplicateRollback(p, h)

\* Mutant: the decrement without its guard.
GuardedDebit_Unguarded(rows, amt) ==
    IF rows # <<>> THEN <<rows[1] - amt>> ELSE <<>>

\* The guarded decrement: update credit_balance set balance = balance - amt
\* where express_user_id = uid and balance >= amt returning balance.  <<>> when
\* no row is updated.
GuardedDebit(rows, amt) ==
    IF rows # <<>> /\ rows[1] >= amt THEN <<rows[1] - amt>> ELSE <<>>

\* credits_consume, step 2: the decrement.  It waits for the row lock, then
\* tests the guard on the latest version of the row.
credits_consume_update(p) ==
    /\ pc[p] = "consume_update"
    /\ ~BalanceRowLocked(p, req[p].uid)
    /\ LET row == GuardedDebit(SelectBalance(p, req[p].uid), COSTS[req[p].action]) IN
        /\ bal' = [bal EXCEPT ![p] = row]
        /\ IF row = <<>>
           THEN /\ Goto(p, "consume_insufficient_rollback")
                /\ UNCHANGED tx
           ELSE /\ tx' = [tx EXCEPT ![p].upd = row]
                /\ Goto(p, "consume_commit")
    /\ UNCHANGED <<users, credit_balance, credit_ledger, req, calls, log>>

\* Mutant: the failed charge is committed instead of rolled back.
credits_consume_insufficient_commit(p) ==
    /\ pc[p] = "consume_insufficient_rollback"
    /\ users' = CommitUsers(p)
    /\ credit_balance' = CommitBalance(p)
    /\ credit_ledger' = CommitLedger(p)
    /\ tx' = [tx EXCEPT ![p] = NoTx]
    /\ Goto(p, "consume_insufficient_select")
    /\ UNCHANGED <<req, bal, calls, log>>

\* credits_consume, not row: db.session.rollback().
credits_consume_insufficient_rollback(p) ==
    /\ pc[p] = "consume_insufficient_rollback"
    /\ tx' = [tx EXCEPT ![p] = NoTx]
    /\ Goto(p, "consume_insufficient_select")
    /\ UNCHANGED <<users, credit_balance, credit_ledger, req, bal, calls, log>>

\* credits_consume, not row: the select after the rollback, in a new
\* transaction, and the 402 response.  scalar_one raises on an empty result.
credits_consume_insufficient_select(p, h) ==
    /\ pc[p] = "consume_insufficient_select"
    /\ IF SelectBalance(p, req[p].uid) = <<>>
       THEN /\ Goto(p, "no_result")
            /\ UNCHANGED <<users, credit_balance, credit_ledger, req, tx, bal, calls, log>>
       ELSE /\ UNCHANGED <<users, credit_balance, credit_ledger>>
            /\ Return(p, Json(402, <<FALSE>>, FALSE, SelectBalance(p, req[p].uid),
                              "insufficient_credits", ""), Committed, h)

\* credits_consume: commit and respond with the balance the update returned.
credits_consume_commit(p, h) ==
    /\ pc[p] = "consume_commit"
    /\ users' = CommitUsers(p)
    /\ credit_balance' = CommitBalance(p)
    /\ credit_ledger' = CommitLedger(p)
    /\ Return(p, Json(200, <<TRUE>>, FALSE, bal[p], "", ""),
              [users |-> CommitUsers(p), balance |-> CommitBalance(p),
               ledger |-> CommitLedger(p)], h)

\* Mutant: the grant inserts its ledger row without the conflict clause.
credits_grant_insert_ref_ungated(p) ==
    /\ pc[p] = "grant_insert_ref"
    /\ tx' = [tx EXCEPT ![p].ledger = Append(@,
                LedgerRow(req[p].uid, req[p].amount, req[p].action, <<req[p].ref>>,
                          req[p].app_id))]
    /\ Goto(p, "grant_update")
    /\ UNCHANGED <<users, credit_balance, credit_ledger, req, bal, calls, log>>

\* credits_grant with a reference: the ledger insert.
credits_grant_insert_ref(p) ==
    /\ pc[p] = "grant_insert_ref"
    /\ GateInsert(p, req[p].amount, "grant_update", "grant_dup_select")

credits_grant_dup_select(p) ==
    /\ pc[p] = "grant_dup_select"
    /\ DuplicateSelect(p, "grant_dup_rollback")

credits_grant_dup_rollback(p, h) ==
    /\ pc[p] = "grant_dup_rollback"
    /\ DuplicateRollback(p, h)

\* Mutant: the grant without a reference goes through the gate on
\* (app_id, account, amount).
credits_grant_insert_deduplicated(p) ==
    /\ pc[p] = "grant_insert"
    /\ IF \E i \in 1..Len(credit_ledger) :
              credit_ledger[i] = LedgerRow(req[p].uid, req[p].amount, req[p].action,
                                           <<>>, req[p].app_id)
       THEN /\ Goto(p, "grant_dup_select")
            /\ UNCHANGED tx
       ELSE /\ tx' = [tx EXCEPT ![p].ledger = Append(@,
                        LedgerRow(req[p].uid, req[p].amount, req[p].action, <<>>,
                                  req[p].app_id))]
            /\ Goto(p, "grant_update")
    /\ UNCHANGED <<users, credit_balance, credit_ledger, req, bal, calls, log>>

\* credits_grant without a reference: the ledger insert, external_ref null.
credits_grant_insert(p) ==
    /\ pc[p] = "grant_insert"
    /\ tx' = [tx EXCEPT ![p].ledger = Append(@,
                LedgerRow(req[p].uid, req[p].amount, req[p].action, <<>>, req[p].app_id))]
    /\ Goto(p, "grant_update")
    /\ UNCHANGED <<users, credit_balance, credit_ledger, req, bal, calls, log>>

\* Mutant: the increment is lost.
Credit_Lost(rows, delta) == rows

\* update credit_balance set balance = balance + delta where express_user_id = uid.
Credit(rows, delta) ==
    IF rows # <<>> THEN <<rows[1] + delta>> ELSE <<>>

\* credits_grant: the increment.  It waits for the row lock.
credits_grant_update(p) ==
    /\ pc[p] = "grant_update"
    /\ ~BalanceRowLocked(p, req[p].uid)
    /\ tx' = [tx EXCEPT ![p].upd = Credit(SelectBalance(p, req[p].uid), req[p].amount)]
    /\ Goto(p, "grant_select")
    /\ UNCHANGED <<users, credit_balance, credit_ledger, req, bal, calls, log>>

\* Mutant: the select of the new balance misses the session's own update.
credits_grant_select_committed(p) ==
    /\ pc[p] = "grant_select"
    /\ bal' = [bal EXCEPT ![p] = IF req[p].uid \in DOMAIN credit_balance
                                 THEN <<credit_balance[req[p].uid]>> ELSE <<0>>]
    /\ Goto(p, "grant_commit")
    /\ UNCHANGED <<users, credit_balance, credit_ledger, req, tx, calls, log>>

\* credits_grant: the select of the new balance (scalar_one).
credits_grant_select(p) ==
    /\ pc[p] = "grant_select"
    /\ bal' = [bal EXCEPT ![p] = SelectBalance(p, req[p].uid)]
    /\ Goto(p, IF SelectBalance(p, req[p].uid) = <<>> THEN "no_result" ELSE "grant_commit")
    /\ UNCHANGED <<users, credit_balance, credit_ledger, req, tx, calls, log>>

\* credits_grant: commit and respond with the balance selected.
credits_grant_commit(p, h) ==
    /\ pc[p] = "grant_commit"
    /\ users' = CommitUsers(p)
    /\ credit_balance' = CommitBalance(p)
    /\ credit_ledger' = CommitLedger(p)
    /\ Return(p, Json(200, <<TRUE>>, FALSE, bal[p], "", ""),
              [users |-> CommitUsers(p), balance |-> CommitBalance(p),
               ledger |-> CommitLedger(p)], h)

\* Mutant: the except clause responds without the rollback, and the writes of
\* the session reach the tables.
ExceptionHandler_NoRollback(p, message, h) ==
    /\ users' = CommitUsers(p)
    /\ credit_balance' = CommitBalance(p)
    /\ credit_ledger' = CommitLedger(p)
    /\ Return(p, Json(500, <<>>, FALSE, <<>>, FailedMessage(req[p]), message),
              [users |-> CommitUsers(p), balance |-> CommitBalance(p),
               ledger |-> CommitLedger(p)], h)

RECURSIVE Entries(_, _, _)
\* select ... from credit_ledger where express_user_id = u order by created_at
\* desc limit n: the rows of u, newest first (the table is kept in the order of
\* created_at), as the response shows them.
Entries(ledger, u, n) ==
    IF ledger = <<>> \/ n = 0 THEN <<>>
    ELSE LET row == ledger[Len(ledger)]
             rest == SubSeq(ledger, 1, Len(ledger) - 1) IN
         IF row.express_user_id = u
         THEN <<[delta |-> row.delta, reason |-> row.reason,
                 external_ref |-> row.external_ref]>> \o Entries(rest, u, n - 1)
         ELSE Entries(rest, u, n)

\* The response of credits_ledger to request r.
LedgerResponse(r) ==
    IF ~r.admin THEN Json(401, <<>>, FALSE, <<>>, "Unauthorized", "")
    ELSE IF r.uid = "" THEN Json(400, <<>>, FALSE, <<>>, "Missing express_user_id", "")
    ELSE Json(200, <<>>, FALSE, <<>>, "", "")
         @@ [entries |-> Entries(credit_ledger, r.uid, LedgerLimit)]

\* credits_ledger: the admin check, the select and the response.  It writes
\* nothing and runs no ensure_user_row.
credits_ledger(p, h) ==
    /\ pc[p] = "idle"
    /\ calls < MaxCalls
    /\ calls' = calls + 1
    /\ \E r \in LedgerReqs :
          Record(h, [req |-> r, resp |-> LedgerResponse(r), post |-> Committed])
    /\ UNCHANGED <<users, credit_balance, credit_ledger, pc, req, tx, bal>>

\* The except clause of a handler: rollback and respond 500 with the message
\* of the exception.
ExceptionHandler(p, message, h) ==
    /\ UNCHANGED <<users, credit_balance, credit_ledger>>
    /\ Return(p, Json(500, <<>>, FALSE, <<>>, FailedMessage(req[p]), message), Committed, h)

\* scalar_one found no row: NoResultFound reaches the except clause.
no_result_found(p, h) ==
    /\ pc[p] = "no_result"
    /\ ExceptionHandler(p, "NoResultFound", h)

\* The database fails the statement (or the commit) the handler is at.
storage_error(p, h) ==
    /\ pc[p] \notin {"idle", "no_result"}
    /\ ExceptionHandler(p, "OperationalError", h)

Step(p, h) ==
    \/ Receive(p, h)
    \/ ensure_user_row_users(p)
    \/ ensure_user_row_balance(p)
    \/ credits_balance_select(p)
    \/ credits_balance_commit(p, h)
    \/ credits_consume_insert(p)
    \/ credits_consume_dup_select(p)
    \/ credits_consume_dup_rollback(p, h)
    \/ credits_consume_update(p)
    \/ credits_consume_insufficient_rollback(p)
    \/ credits_consume_insufficient_select(p, h)
    \/ credits_consume_commit(p, h)
    \/ credits_grant_insert_ref(p)
    \/ credits_grant_dup_select(p)
    \/ credits_grant_dup_rollback(p, h)
    \/ credits_grant_insert(p)
    \/ credits_grant_update(p)
    \/ credits_grant_select(p)
    \/ credits_grant_commit(p, h)
    \/ credits_ledger(p, h)
    \/ no_result_found(p, h)
    \/ storage_error(p, h)

\* Any worker takes a step; the history keeps the last finished call.
Next == \E p \in Workers : Step(p, 1)

Spec == Init /\ [][Next]_vars

\* One client calls in sequence: worker 1 handles every request, and the
\* history keeps every finished call.  The run starts when a credits_balance
\* call for SeenUid has returned, so that one account exists with balance 0 and
\* the other has never been seen.
SeenUid == "u1"

SeqInit ==
    /\ users = {SeenUid}
    /\ credit_balance = (SeenUid :> 0)
    /\ credit_ledger = <<>>
    /\ pc = [p \in Workers |-> "idle"]
    /\ req = [p \in Workers |-> NoReq]
    /\ tx = [p \in Workers |-> NoTx]
    /\ bal = [p \in Workers |-> <<>>]
    /\ calls = 0
    /\ log = << [req |-> [NoReq EXCEPT !.kind = "balance", !.uid = SeenUid],
                 resp |-> Json(200, <<>>, FALSE, <<0>>, "", ""),
                 post |-> [users |-> {SeenUid}, balance |-> (SeenUid :> 0),
                           ledger |-> <<>>]] >>

SeqNext == Step(1, MaxCalls + 1)

SeqSpec == SeqInit /\ [][SeqNext]_vars

\* Two consume calls on the same account, received together by the two workers
\* with the account either never seen (b = 0) or holding b credits from one
\* grant without reference.
PairUid == "u1"

PairInit ==
    \E b \in 0..MaxBalance :
        /\ users = IF b = 0 THEN {} ELSE {PairUid}
        /\ credit_balance = IF b = 0 THEN <<>> ELSE (PairUid :> b)
        /\ credit_ledger = IF b = 0 THEN <<>>
                           ELSE <<LedgerRow(PairUid, b, "admin_grant", <<>>, "billing")>>
        /\ pc = [p \in Workers |-> IF p \in {1, 2} THEN "ensure_users" ELSE "idle"]
        /\ \E r1 \in ConsumeReqs, r2 \in ConsumeReqs :
              /\ r1.uid = PairUid
              /\ r2.uid = PairUid
              /\ req = [p \in Workers |-> IF p = 1 THEN r1 ELSE IF p = 2 THEN r2 ELSE NoReq]
        /\ tx = [p \in Workers |-> NoTx]
        /\ bal = [p \in Workers |-> <<>>]
        /\ calls = 2
        /\ log = <<>>

ConsumeStep(p, h) ==
    \/ ensure_user_row_users(p)
    \/ ensure_user_row_balance(p)
    \/ credits_consume_insert(p)
    \/ credits_consume_dup_select(p)
    \/ credits_consume_dup_rollback(p, h)
    \/ credits_consume_update(p)
    \/ credits_consume_insufficient_rollback(p)
    \/ credits_consume_insufficient_select(p, h)
    \/ credits_consume_commit(p, h)
    \/ no_result_found(p, h)
    \/ storage_error(p, h)

PairNext == \E p \in {1, 2} : ConsumeStep(p, 2)

PairSpec == PairInit /\ [][PairNext]_vars

\* ------------------------------------------------------------ properties
RECURSIVE SumDelta(_, _)
\* The sum of delta over the ledger rows of account u.
SumDelta(ledger, u) ==
    IF ledger = <<>> THEN 0
    ELSE (IF Head(ledger).express_user_id = u THEN Head(ledger).delta ELSE 0)
         + SumDelta(Tail(ledger), u)

\* The ledger rows with key (app, ref).
KeyRows(ledger, app, ref) ==
    {i \in 1..Len(ledger) : ledger[i].app_id = app /\ ledger[i].external_ref = <<ref>>}

\* The balance of u in tables t, 0 when u has no row.
BalanceOf(t, u) == IF u \in DOMAIN t.balance THEN t.balance[u] ELSE 0

\* The committed tables when call i > 1 of a sequential history began.
PreTables(i) == log[i - 1].post

\* The positions of the calls of a sequential history that follow another call.
Later == 2..Len(log)

ServerError(e) == e.resp.status = 500
StorageError(e) == e.resp.message = "OperationalError"
Succeeded(e) == e.resp.status = 200 /\ e.resp.ok = <<TRUE>> /\ ~e.resp.idempotent
Idempotent(e) == e.resp.status = 200 /\ e.resp.ok = <<TRUE>> /\ e.resp.idempotent
SameKey(r1, r2) == r1.app_id = r2.app_id /\ r1.ref = r2.ref

\* C1: in every committed state every account's balance is >= 0, whatever
\* consume, grant and balance calls ran, concurrently or not.
C1_BalanceNeverNegative ==
    \A u \in DOMAIN credit_balance : credit_balance[u] >= 0

\* C1 witness: a consume has been committed and has used up an account's balance.
C1_Witness ==
    \E i \in 1..Len(credit_ledger) :
        /\ credit_ledger[i].delta < 0
        /\ credit_ledger[i].express_user_id \in DOMAIN credit_balance
        /\ credit_balance[credit_ledger[i].express_user_id] = 0

\* C4: with no transaction in flight, the committed balance of every account is
\* the sum of delta over its committed ledger rows (an account without a balance
\* row has no ledger rows).
C4_Reconciliation ==
    InFlight = {} =>
        \A u \in Uids : BalanceOf(Committed, u) = SumDelta(credit_ledger, u)

\* C4 witness: a quiescent state after a grant and a consume on one account, and
\* after a call that was rejected or found duplicate.
C4_Witness ==
    /\ InFlight = {}
    /\ calls = MaxCalls
    /\ \E u \in DOMAIN credit_balance :
          /\ credit_balance[u] = GrantAmount - 1
          /\ \E i, j \in 1..Len(credit_ledger) :
                /\ credit_ledger[i].express_user_id = u /\ credit_ledger[i].delta > 0
                /\ credit_ledger[j].express_user_id = u /\ credit_ledger[j].delta < 0
    /\ log # <<>>
    /\ (log[Len(log)].resp.status = 402 \/ log[Len(log)].resp.idempotent)

\* C9: the committed ledger holds at most one row per (app_id, external_ref)
\* with a non-empty external_ref, across accounts and across consume and grant.
C9_KeyUnique ==
    \A i, j \in 1..Len(credit_ledger) :
        ( /\ credit_ledger[i].external_ref # <<>>
          /\ credit_ledger[i].external_ref = credit_ledger[j].external_ref
          /\ credit_ledger[i].app_id = credit_ledger[j].app_id ) => i = j

\* C9 witness: two keyed rows share the reference under different app_ids, and
\* the last call, bearing a key already in the ledger, was turned away.
C9_Witness ==
    /\ \E i, j \in 1..Len(credit_ledger) :
          /\ credit_ledger[i].external_ref # <<>>
          /\ credit_ledger[i].external_ref = credit_ledger[j].external_ref
          /\ credit_ledger[i].app_id # credit_ledger[j].app_id
    /\ log # <<>>
    /\ log[Len(log)].resp.idempotent

\* The state SeqSpec starts in is a state of Spec: a credits_balance call for
\* SeenUid has returned and nothing else has happened.
SeqInitReached ==
    /\ InFlight = {}
    /\ Committed = [users |-> {SeenUid}, balance |-> (SeenUid :> 0), ledger |-> <<>>]
    /\ log = << [req |-> [NoReq EXCEPT !.kind = "balance", !.uid = SeenUid],
                 resp |-> Json(200, <<>>, FALSE, <<0>>, "", ""),
                 post |-> Committed] >>

\* C10: after a consume or grant call that passed validation has returned with
\* success, duplicate or insufficient credits, the users row and the
\* credit_balance row of its account are committed.
C10_AccountCreatedOnFirstTouch ==
    \A i \in Later :
        ( /\ log[i].req.kind \in {"consume", "grant"}
          /\ log[i].resp.status \in {200, 402} )
        => /\ log[i].req.uid \in log[i].post.users
           /\ log[i].req.uid \in DOMAIN log[i].post.balance

\* Two calls in sequence, a then b, of the given kind, both past validation,
\* bearing the same (app_id, reference).
Repeated(a, b, kind) ==
    /\ a.req.kind = kind /\ b.req.kind = kind
    /\ Validate(a.req) = NoResp /\ Validate(b.req) = NoResp
    /\ SameKey(a.req, b.req)

\* C2 as stated: a consume called twice in sequence for the same account with
\* the same (app_id, action_ref), no call ending in a server error: the first
\* call debits cost(action), the second responds ok:true, idempotent:true with
\* the balance left by the first, and changes neither balance nor ledger.
C2_AsStated ==
    \A i \in Later \ {Len(log)} :
        LET a == log[i]  b == log[i + 1]  u == a.req.uid IN
        ( /\ Repeated(a, b, "consume") /\ b.req.uid = u
          /\ ~ServerError(a) /\ ~ServerError(b) )
        => /\ Succeeded(a)
           /\ BalanceOf(a.post, u) = BalanceOf(PreTables(i), u) - COSTS[a.req.action]
           /\ Idempotent(b)
           /\ b.resp.balance = <<BalanceOf(a.post, u)>>
           /\ b.post.balance = a.post.balance
           /\ b.post.ledger = a.post.ledger

\* C2 as amended: when the first of the two calls is accepted (ok:true, not a
\* duplicate), it debits cost(action) and adds one ledger row; the second call
\* changes no table and, unless the database fails it, responds ok:true,
\* idempotent:true with the balance left by the first.
C2_DebitedOnce ==
    \A i \in Later \ {Len(log)} :
        LET a == log[i]  b == log[i + 1]  u == a.req.uid IN
        ( /\ Repeated(a, b, "consume") /\ b.req.uid = u
          /\ Succeeded(a) )
        => /\ u \in DOMAIN a.post.balance
           /\ BalanceOf(a.post, u) = BalanceOf(PreTables(i), u) - COSTS[a.req.action]
           /\ a.resp.balance = <<BalanceOf(a.post, u)>>
           /\ Len(a.post.ledger) = Len(PreTables(i).ledger) + 1
           /\ Cardinality(KeyRows(a.post.ledger, a.req.app_id, a.req.ref)) = 1
           /\ b.post = a.post
           /\ ~StorageError(b) => /\ Idempotent(b)
                                  /\ b.resp.balance = <<BalanceOf(a.post, u)>>

\* C2 witness: a consume was accepted and its repetition answered idempotent.
C2_Witness ==
    \E i \in Later \ {Len(log)} :
        /\ Repeated(log[i], log[i + 1], "consume")
        /\ log[i].req = log[i + 1].req
        /\ Succeeded(log[i])
        /\ Idempotent(log[i + 1])

C5_NeverSeenAccount402 ==
    \A i \in Later :
        LET a == log[i]  u == a.req.uid IN
        ( /\ a.req.kind = "consume" /\ Validate(a.req) = NoResp
          /\ u \notin PreTables(i).users
          /\ u \notin DOMAIN PreTables(i).balance
          /\ KeyRows(PreTables(i).ledger, a.req.app_id, a.req.ref) = {}
          /\ ~StorageError(a) )
        => /\ a.resp.status = 402
           /\ a.resp.error = "insufficient_credits"
           /\ a.resp.balance = <<0>>

\* The guarded debit of call e found too little: 402, or the exception of the
\* select that follows the rollback.
GuardFailed(e) ==
    \/ e.resp.status = 402
    \/ e.resp.message = "NoResultFound"

\* Three calls in sequence from position i: a consume whose guard failed, a
\* grant that leaves its account a balance of at least the cost, and the
\* identical consume again, not failed by the database.
RetryAfterGrant(i) ==
    LET a == log[i]  g == log[i + 1]  c == log[i + 2] IN
    /\ a.req.kind = "consume" /\ Validate(a.req) = NoResp
    /\ GuardFailed(a)
    /\ g.req.kind = "grant" /\ Validate(g.req) = NoResp
    /\ BalanceOf(g.post, a.req.uid) >= COSTS[a.req.action]
    /\ c.req = a.req
    /\ ~StorageError(c)

\* The retried consume is accepted: not a duplicate, debited once.
RetryAccepted(i) ==
    LET a == log[i]  g == log[i + 1]  c == log[i + 2]  u == a.req.uid IN
    /\ KeyRows(a.post.ledger, a.req.app_id, a.req.ref) = {}
    /\ Succeeded(c)
    /\ c.resp.balance = <<BalanceOf(g.post, u) - COSTS[a.req.action]>>
    /\ BalanceOf(c.post, u) = BalanceOf(g.post, u) - COSTS[a.req.action]
    /\ Len(c.post.ledger) = Len(g.post.ledger) + 1
    /\ Cardinality(KeyRows(c.post.ledger, a.req.app_id, a.req.ref)) = 1

PairDone ==
    /\ Len(log) = 2
    /\ ~StorageError(log[1]) /\ ~StorageError(log[2])

\* The balance the account of PairSpec held when the two calls arrived: the
\* amount of the grant that opens the ledger.
PairStartBalance ==
    IF credit_ledger # <<>> /\ credit_ledger[1].external_ref = <<>>
    THEN credit_ledger[1].delta ELSE 0

\* C7: two concurrent consumes on one account with different references, the
\* balance covering one of them but not both: exactly one is accepted and
\* committed, the other fails the guard and responds 402.
C7_OneOfTwoDebits ==
    ( /\ PairDone
      /\ log[1].req.ref # log[2].req.ref
      /\ PairStartBalance < COSTS[log[1].req.action] + COSTS[log[2].req.action]
      /\ \/ PairStartBalance >= COSTS[log[1].req.action]
         \/ PairStartBalance >= COSTS[log[2].req.action] )
    => \E w \in {1, 2} :
          LET won == log[w]  lost == log[3 - w] IN
          /\ Succeeded(won)
          /\ lost.resp.status = 402 /\ lost.resp.error = "insufficient_credits"
          /\ credit_balance[PairUid] = PairStartBalance - COSTS[won.req.action]
          /\ credit_balance[PairUid] >= 0
          /\ Len(credit_ledger) = 2
          /\ credit_ledger[2].external_ref = <<won.req.ref>>
          /\ credit_ledger[2].delta = -COSTS[won.req.action]

\* C7 witness: both calls have passed the gate and stand before the decrement
\* of a balance that covers only one of them.
C7_Witness ==
    /\ pc[1] = "consume_update" /\ pc[2] = "consume_update"
    /\ req[1].ref # req[2].ref
    /\ credit_balance[PairUid] < COSTS[req[1].action] + COSTS[req[2].action]
    /\ credit_balance[PairUid] >= COSTS[req[1].action]
    /\ credit_balance[PairUid] >= COSTS[req[2].action]

\* C8: two concurrent consumes with the same (app_id, action_ref) on an account
\* that can pay: one ledger row for the key, one debit of the cost of the call
\* that won the insert; the other call responds ok:true, idempotent:true with
\* that balance.
C8_OneInsertWins ==
    ( /\ PairDone
      /\ SameKey(log[1].req, log[2].req)
      /\ PairStartBalance >= COSTS[log[1].req.action]
      /\ PairStartBalance >= COSTS[log[2].req.action] )
    => /\ Succeeded(log[1])
       /\ Idempotent(log[2])
       /\ Cardinality(KeyRows(credit_ledger, log[1].req.app_id, log[1].req.ref)) = 1
       /\ Len(credit_ledger) = 2
       /\ credit_ledger[2].delta = -COSTS[log[1].req.action]
       /\ credit_balance[PairUid] = PairStartBalance - COSTS[log[1].req.action]
       /\ log[2].resp.balance = <<credit_balance[PairUid]>>
       /\ log[2].post = log[1].post

\* C8 witness: one call holds the uncommitted ledger row and the other, with
\* the same key, stands before its insert.
C8_Witness ==
    /\ pc[1] = "consume_update" /\ pc[2] = "consume_insert"
    /\ SameKey(req[1], req[2])
    /\ tx[1].ledger # <<>>
    /\ credit_balance[PairUid] >= COSTS[req[1].action]
    /\ credit_balance[PairUid] >= COSTS[req[2].action]

\* C11: a balance query on an account that has neither a users row nor a
\* credit_balance row, unless the database fails it, responds 200 with balance 0
\* and leaves a committed users row and a committed credit_balance row of 0 for
\* that account, and nothing else changed.
C11_UnknownAccountReadsZero ==
    \A i \in Later :
        LET a == log[i]  u == a.req.uid  pre == PreTables(i) IN
        ( /\ a.req.kind = "balance" /\ Validate(a.req) = NoResp
          /\ u \notin pre.users
          /\ u \notin DOMAIN pre.balance
          /\ ~StorageError(a) )
        => /\ a.resp.status = 200
           /\ a.resp.balance = <<0>>
           /\ a.post.users = pre.users \cup {u}
           /\ a.post.balance = (u :> 0) @@ pre.balance
           /\ a.post.ledger = pre.ledger

\* C11 witness: a balance query on the never-seen account has returned 0 and the
\* account's rows are committed.
C11_Witness ==
    \E i \in Later :
        /\ log[i].req.kind = "balance"
        /\ log[i].req.uid \notin PreTables(i).users
        /\ log[i].resp.balance = <<0>>
        /\ log[i].req.uid \in users
        /\ log[i].req.uid \in DOMAIN credit_balance
        /\ credit_balance[log[i].req.uid] = 0

\* Worker p returns in this step: its handler was running and is idle after it.
Returns(p) == pc[p] # "idle" /\ pc'[p] = "idle"

\* C12: running the registrar on an account that exists never changes its
\* balance or its ledger rows.  In every step, for every account with a
\* committed credit_balance row: the rows stay, the balance changes by exactly
\* the delta of the ledger rows committed for the account in that step (so it
\* is never reset to 0), and a balance query on it changes no table at all.
C12_RegistrarIdempotent ==
    [][ /\ users \subseteq users'
        /\ \A u \in DOMAIN credit_balance :
              /\ u \in DOMAIN credit_balance'
              /\ credit_balance'[u] - credit_balance[u]
                   = SumDelta(credit_ledger', u) - SumDelta(credit_ledger, u)
        /\ \A p \in Workers :
              ( /\ Returns(p)
                /\ req[p].kind = "balance"
                /\ req[p].uid \in DOMAIN credit_balance )
              => /\ users' = users
                 /\ credit_balance' = credit_balance
                 /\ credit_ledger' = credit_ledger
      ]_vars

\* C12 witness: a balance query on an account that holds a granted balance has
\* returned that balance, and the account still holds it.
C12_Witness ==
    /\ log # <<>>
    /\ log[Len(log)].req.kind = "balance"
    /\ log[Len(log)].resp.balance = <<GrantAmount>>
    /\ log[Len(log)].req.uid \in DOMAIN credit_balance
    /\ credit_balance[log[Len(log)].req.uid] = GrantAmount
    /\ SumDelta(credit_ledger, log[Len(log)].req.uid) = GrantAmount

\* The calls i..j of a sequential history are one grant without reference,
\* repeated, none of them failed by the database.
RepeatedGrantNoRef(i, j) ==
    \A k \in i..j :
        /\ log[k].req = log[i].req
        /\ log[k].req.kind = "grant"
        /\ Validate(log[k].req) = NoResp
        /\ log[k].req.ref = ""
        /\ ~StorageError(log[k])

\* C13: a grant without external_ref is never deduplicated.  n identical such
\* grants in a row (n >= 1) are each accepted, not idempotent, each appends one
\* ledger row without reference and answers the balance it left: n more ledger
\* rows and n times the amount more on the balance.
C13_GrantWithoutRefNotDeduplicated ==
    \A i \in Later : \A j \in i..Len(log) :
        RepeatedGrantNoRef(i, j) =>
            LET g == log[i].req  pre == PreTables(i)  n == j - i + 1 IN
            /\ \A k \in i..j :
                  /\ Succeeded(log[k])
                  /\ log[k].resp.balance
                       = <<BalanceOf(pre, g.uid) + (k - i + 1) * g.amount>>
                  /\ log[k].post.ledger
                       = Append(PreTables(k).ledger,
                                LedgerRow(g.uid, g.amount, g.action, <<>>, g.app_id))
            /\ Len(log[j].post.ledger) = Len(pre.ledger) + n
            /\ g.uid \in DOMAIN log[j].post.balance
            /\ log[j].post.balance[g.uid] = BalanceOf(pre, g.uid) + n * g.amount

\* C13 witness: the same grant without reference made MaxCalls times in a row
\* left MaxCalls ledger rows and MaxCalls times the amount.
C13_Witness ==
    /\ Len(log) = MaxCalls + 1
    /\ RepeatedGrantNoRef(2, Len(log))
    /\ Len(credit_ledger) = MaxCalls
    /\ credit_balance[log[2].req.uid] = MaxCalls * GrantAmount

\* C14: a consume or grant that ends in the except clause (500) after it passed
\* validation is rolled back as a whole: the committed users, balances and
\* ledger are what they were before the call, and every balance is still the
\* sum of its account's ledger rows.
C14_FailedCallRolledBack ==
    \A i \in Later :
        LET a == log[i] IN
        ( /\ a.req.kind \in {"consume", "grant"}
          /\ Validate(a.req) = NoResp
          /\ ServerError(a) )
        => /\ a.post = PreTables(i)
           /\ \A u \in Uids : BalanceOf(a.post, u) = SumDelta(a.post.ledger, u)

\* C14 witness: a consume and a grant were each failed by the database on an
\* account holding credits, and the tables are those the calls found.
C14_Witness ==
    \E i, j \in Later :
        /\ log[i].req.kind = "consume" /\ StorageError(log[i])
        /\ log[j].req.kind = "grant" /\ StorageError(log[j])
        /\ PreTables(i).ledger # <<>>
        /\ BalanceOf(PreTables(i), log[i].req.uid) >= COSTS[log[i].req.action]
        /\ log[i].post = PreTables(i)
        /\ log[j].post = PreTables(j)

\* A consume request with an empty account id, an action that is not in the
\* cost table, or an empty action_ref.
InvalidConsume(r) ==
    /\ r.kind = "consume"
    /\ (r.uid = "" \/ r.action \notin DOMAIN COSTS \/ r.ref = "")

Delta(r) == IF r.kind = "consume" THEN -COSTS[r.action] ELSE r.amount

\* C16: in every step in which a consume or grant returns ok:true without
\* idempotent, the balance it responds is the committed balance of its account
\* just before the step minus cost(action), respectively plus amount, and is
\* the balance the step commits; and in every step in which such a call updates
\* the balance row, the new value is the committed balance plus that amount.
\* This holds with other requests in flight on the same account.
C16_ResponseIsCommittedBalance ==
    [][ \A p \in Workers :
          LET r == req[p]  u == req[p].uid IN
          /\ ( /\ Returns(p)
               /\ r.kind \in {"consume", "grant"}
               /\ Succeeded(log'[Len(log')]) )
             => /\ u \in DOMAIN credit_balance'
                /\ credit_balance'[u] = BalanceOf(Committed, u) + Delta(r)
                /\ log'[Len(log')].resp.balance = <<credit_balance'[u]>>
          /\ ( /\ pc[p] \in {"consume_update", "grant_update"}
               /\ tx'[p].upd # tx[p].upd )
             => tx'[p].upd = <<BalanceOf(Committed, u) + Delta(r)>>
      ]_vars

\* C16 witness: a grant was accepted and answered the balance it committed
\* while a balance query on the same account, which had read the balance before
\* that commit, was still in flight.
C16_Witness ==
    /\ log # <<>>
    /\ Succeeded(log[Len(log)])
    /\ log[Len(log)].req.kind = "grant"
    /\ LET u == log[Len(log)].req.uid IN
          /\ log[Len(log)].resp.balance = <<GrantAmount>>
          /\ credit_balance[u] = GrantAmount
          /\ \E q \in Workers :
                /\ req[q].kind = "balance" /\ req[q].uid = u
                /\ pc[q] = "balance_commit"
                /\ bal[q] = <<0>>

\* C17: the committed ledger is append-only.  In every step, of a consume, a
\* grant, a balance query or an audit query, committed or rolled back, the
\* ledger after the step is the ledger before it followed by zero or more new
\* rows: no committed row is changed, removed or moved.
C17_LedgerAppendOnly ==
    [][ /\ Len(credit_ledger') >= Len(credit_ledger)
        /\ SubSeq(credit_ledger', 1, Len(credit_ledger)) = credit_ledger
      ]_vars

\* C17 witness: two rows were committed by two calls, and an audit query run
\* after them shows both, the newer first.
C17_Witness ==
    /\ Len(credit_ledger) = 2
    /\ credit_ledger[1].express_user_id = credit_ledger[2].express_user_id
    /\ credit_ledger[2].delta < 0
    /\ log # <<>>
    /\ log[Len(log)].req.kind = "ledger"
    /\ log[Len(log)].resp.status = 200
    /\ Len(log[Len(log)].resp.entries) = 2
    /\ log[Len(log)].resp.entries[1].delta = credit_ledger[2].delta
    /\ log[Len(log)].resp.entries[2].delta = credit_ledger[1].delta

\* The steps a handler takes by itself once its request is received: every
\* statement, commit, rollback and raised exception, but not the arrival of a
\* request and not a failure of the database.
Progress(p, h) ==
    \/ ensure_user_row_users(p)
    \/ ensure_user_row_balance(p)
    \/ credits_balance_select(p)
    \/ credits_balance_commit(p, h)
    \/ credits_consume_insert(p)
    \/ credits_consume_dup_select(p)
    \/ credits_consume_dup_rollback(p, h)
    \/ credits_consume_update(p)
    \/ credits_consume_insufficient_rollback(p)
    \/ credits_consume_insufficient_select(p, h)
    \/ credits_consume_commit(p, h)
    \/ credits_grant_insert_ref(p)
    \/ credits_grant_dup_select(p)
    \/ credits_grant_dup_rollback(p, h)
    \/ credits_grant_insert(p)
    \/ credits_grant_update(p)
    \/ credits_grant_select(p)
    \/ credits_grant_commit(p, h)
    \/ no_result_found(p, h)

\* The concurrent workers without history, each handler running on whenever
\* the database lets its statement through.
LiveNext == \E p \in Workers : Step(p, 0)

LiveSpec ==
    /\ Init
    /\ [][LiveNext]_vars
    /\ \A p \in Workers : WF_vars(Progress(p, 0))

\* C18: every request that opens a transaction ends: its handler returns with
\* the session's transaction over, whatever other requests run on the same or
\* other accounts and references; no requests wait on each other forever.  And
\* a handler returns only by a step that either commits all the writes of its
\* session or leaves the tables as they are, with nothing of the session left.
C18_EveryRequestEnds ==
    /\ \A p \in Workers : (pc[p] # "idle") ~> (pc[p] = "idle" /\ tx[p] = NoTx)
    /\ [][ \A p \in Workers :
             Returns(p) =>
                /\ tx'[p] = NoTx
                /\ \/ /\ users' = CommitUsers(p)
                      /\ credit_balance' = CommitBalance(p)
                      /\ credit_ledger' = CommitLedger(p)
                   \/ UNCHANGED <<users, credit_balance, credit_ledger>>
         ]_vars

\* C18 witness: a consume that holds its uncommitted ledger row waits for the
\* balance row, which a grant on the same account has locked.
C18_Witness ==
    \E p, q \in Workers :
        /\ pc[p] = "consume_update"
        /\ tx[p].ledger # <<>>
        /\ req[q].kind = "grant" /\ req[q].uid = req[p].uid
        /\ tx[q].upd # <<>>
        /\ BalanceRowLocked(p, req[p].uid)
        /\ ~ENABLED credits_consume_update(p)

\* C19: whenever a consume for account U, action A, app_id P and reference R
\* responds ok:true, idempotent or not, the committed ledger holds a row with
\* app_id P and external_ref R that belongs to U and has delta -cost(A).
C19_OkMeansDebited ==
    \A i \in Later :
        LET a == log[i] IN
        ( /\ a.req.kind = "consume"
          /\ a.resp.status = 200
          /\ a.resp.ok = <<TRUE>> )
        => \E k \in KeyRows(a.post.ledger, a.req.app_id, a.req.ref) :
              /\ a.post.ledger[k].express_user_id = a.req.uid
              /\ a.post.ledger[k].delta = -COSTS[a.req.action]

\* The ledger rows of account u, in order.
RowsOf(ledger, u) == SelectSeq(ledger, LAMBDA row : row.express_user_id = u)

\* C20: a call made for account A never changes the committed rows of another
\* account B.  In every step of a handler working for A, every B # A keeps its
\* users row and its credit_balance row as they are (present or absent), its
\* balance and its ledger rows; and the arrival of a request changes no table.
C20_AccountIsolation ==
    [][ /\ \A p \in Workers :
              (pc[p] # "idle" /\ pc'[p] # pc[p]) =>
                 \A B \in Uids \ {req[p].uid} :
                    /\ (B \in users') = (B \in users)
                    /\ (B \in DOMAIN credit_balance') = (B \in DOMAIN credit_balance)
                    /\ B \in DOMAIN credit_balance => credit_balance'[B] = credit_balance[B]
                    /\ RowsOf(credit_ledger', B) = RowsOf(credit_ledger, B)
        /\ calls' # calls => UNCHANGED <<users, credit_balance, credit_ledger>>
      ]_vars

\* C20 witness: a consume on one account was accepted while the other account
\* holds a granted balance and its ledger row, both as the grant left them.
C20_Witness ==
    /\ log # <<>>
    /\ log[Len(log)].req.kind = "consume"
    /\ Succeeded(log[Len(log)])
    /\ \E B \in Uids \ {log[Len(log)].req.uid} :
          /\ B \in DOMAIN credit_balance
          /\ credit_balance[B] = GrantAmount
          /\ Len(RowsOf(credit_ledger, B)) = 1
          /\ Len(RowsOf(credit_ledger, log[Len(log)].req.uid)) = 2

====
